---- MODULE Spec2Model ----
(***************************************************************************)
(* newspicker: article selection (agents/scout.py), the daily pipeline     *)
(* (scripts/run_pipeline.py) and feed maintenance                          *)
(* (scripts/maintain_feeds.py).                                            *)
(*                                                                         *)
(* Strings the code inspects character by character (urls, titles,         *)
(* keywords) are sequences of one-character strings.  Scores are integers  *)
(* (a feed weight of 1.0 is 1, one keyword point is 1).                    *)
(***************************************************************************)
EXTENDS Integers, Sequences, FiniteSets, TLC

\* ------------------------------------------------------------------ bounds
\* Most articles all fetches of one collect() deliver together.
MaxFetched == 3
\* A pipeline run starts only while the history file is shorter than this.
MaxSeenLines == 2
\* Longest urls argument of a direct save_seen_urls call.
MaxSaveArgs == 2

\* --------------------------------------------------------------- helpers
Range(s) == {s[i] : i \in DOMAIN s}

BoundedSeq(S, n) == UNION {[1..k -> S] : k \in 0..n}

\* ------------------------------------------------------------- str methods
Whitespace == {" "}

RECURSIVE LStrip(_)
LStrip(s) ==
    IF s # <<>> /\ Head(s) \in Whitespace THEN LStrip(Tail(s)) ELSE s

RECURSIVE RStrip(_)
RStrip(s) ==
    IF s # <<>> /\ s[Len(s)] \in Whitespace
    THEN RStrip(SubSeq(s, 1, Len(s) - 1))
    ELSE s

\* str.strip()
Strip(s) == RStrip(LStrip(s))

LowerChar(c) ==
    CASE c = "A" -> "a"
      [] c = "I" -> "i"
      [] c = "X" -> "x"
      [] OTHER -> c

\* str.lower()
Lower(s) == [i \in DOMAIN s |-> LowerChar(s[i])]

\* kw in text
Contains(kw, text) ==
    \E i \in 0..(Len(text) - Len(kw)) : SubSeq(text, i + 1, i + Len(kw)) = kw

\* ------------------------------------------------------------ the inputs
\* Urls a source can deliver: two plain ones, one with a leading blank, and
\* the empty string of an entry without a link.
UrlU == <<"u">>
UrlV == <<"v">>
UrlPadU == <<" ", "u">>
UrlNone == <<>>
Urls == {UrlU, UrlV, UrlPadU, UrlNone}

\* What the sources publish: one entry per url, and a second entry for the
\* first url with another title, summary and date, as a second source
\* carries the same story.  source is the name NewsAPI
\* reports for the item ("NewsAPI" when it reports none); an RSS article
\* takes the name of its feed instead.  Items a fetch skips for a reason
\* other than the ones modelled (no date, a removed title) are items the
\* delivered sequence does not have.
Entries ==
    { [url |-> UrlU, title |-> <<"A", "I">>, summary |-> <<"a", "i">>,
       published_at |-> 1, source |-> "NewsAPI"],
      [url |-> UrlV, title |-> <<"x">>, summary |-> <<>>,
       published_at |-> 2, source |-> "X"],
      [url |-> UrlPadU, title |-> <<"x">>, summary |-> <<"A", "I">>,
       published_at |-> 2, source |-> "NewsAPI"],
      [url |-> UrlNone, title |-> <<"a", "i">>, summary |-> <<>>,
       published_at |-> 1, source |-> "X"],
      [url |-> UrlU, title |-> <<"X", "Y">>, summary |-> <<>>,
       published_at |-> 2, source |-> "X"] }

\* config/sources.yml as collect() reads it: the keyword list, the feeds (a
\* dict is a record; the first feed has no weight key) and the selection
\* block (max_per_source may be absent).
Keywords == << <<"A", "I">>, <<"X", "Y">> >>

RssFeeds == << [name |-> "X"], [name |-> "Y", weight |-> 2] >>

SelectionConfigs ==
    {[max_articles |-> n] : n \in {1, 2}}
        \cup {[max_articles |-> n, max_per_source |-> 1] : n \in {1, 2}}

\* dict.get(key, default)
Get(d, key, default) == IF key \in DOMAIN d THEN d[key] ELSE default

\* The label of the NewsAPI fetch in collect's error report.
NewsApiSource == "NewsAPI"

SourceNames == {e.source : e \in Entries} \cup {RssFeeds[i].name : i \in DOMAIN RssFeeds}

\* ------------------------------------------------------ agents/scout.py
VARIABLES
    pc,            \* where run() is
    seen_file,     \* docs/seen_urls.txt, a sequence of lines
    config,        \* the selection block collect() loaded
    api_key,       \* NEWS_API_KEY is set
    all_articles,  \* collect(): the articles fetched so far
    feed_i,        \* collect(): index of the next feed to fetch
    fetch_errors,  \* collect(): the sources whose fetch raised
    articles,      \* run(): what collect() returned
    seen_at_start, \* the history file as it was when the run started
    steps_done,    \* run(): the downstream steps that have completed
    save_args      \* the urls argument of the last save_seen_urls call

scoutVars ==
    <<pc, seen_file, config, api_key, all_articles, feed_i, fetch_errors,
      articles, seen_at_start, steps_done, save_args>>

\* _load_seen_urls: the stripped, non-empty lines of the file (an absent file
\* and an empty one both give the empty set).
LoadSeenUrls(file) == {Strip(file[i]) : i \in DOMAIN file} \ {<<>>}

\* save_seen_urls with the file opened for writing instead of appending.
SaveSeenUrlsTruncating(urls, file) ==
    LET existing == LoadSeenUrls(file)
        new_urls == SelectSeq(urls, LAMBDA u : u \notin existing)
    IN  IF new_urls # <<>> THEN new_urls ELSE file

\* save_seen_urls: appends the urls that are not in the loaded set, in order.
SaveSeenUrls(urls, file) ==
    LET existing == LoadSeenUrls(file)
        new_urls == SelectSeq(urls, LAMBDA u : u \notin existing)
    IN  file \o new_urls

\* A score of one point per occurrence of a keyword in the lowered text.
ScorePerOccurrence(article) ==
    LET text == Lower(article.title \o <<" ">> \o article.summary)
        at(k) == {i \in 0..(Len(text) - Len(Keywords[k])) :
                     SubSeq(text, i + 1, i + Len(Keywords[k])) = Lower(Keywords[k])}
        RECURSIVE sum(_)
        sum(k) == IF k = 0 THEN 0 ELSE Cardinality(at(k)) + sum(k - 1)
    IN  sum(Len(Keywords))

\* _score: one point per entry of the keyword list found in the lowered text.
Score(article) ==
    LET text == Lower(article.title \o <<" ">> \o article.summary)
    IN  Cardinality({k \in DOMAIN Keywords : Contains(Lower(Keywords[k]), text)})

\* fetch_newsapi: an item without a url is skipped; no score is set.
NewsApiArticle(e) ==
    [title |-> e.title, url |-> e.url, summary |-> e.summary,
     published_at |-> e.published_at, source |-> e.source, score |-> 0,
     origin |-> "NewsAPI"]

FetchNewsApi(items) ==
    LET kept == SelectSeq(items, LAMBDA e : e.url # <<>>)
    IN  [i \in DOMAIN kept |-> NewsApiArticle(kept[i])]

\* fetch_rss: entries older than the cutoff are skipped; the score starts at
\* the feed's weight, 1.0 without one.
Now == 3
HoursLookback == 2

RssArticle(feed_cfg, e) ==
    [title |-> e.title, url |-> e.url, summary |-> e.summary,
     published_at |-> e.published_at, source |-> feed_cfg.name,
     score |-> Get(feed_cfg, "weight", 1), origin |-> "RSS"]

FetchRss(feed_cfg, entries) ==
    LET cutoff == Now - HoursLookback
        kept == SelectSeq(entries, LAMBDA e : ~(e.published_at < cutoff))
    IN  [i \in DOMAIN kept |-> RssArticle(feed_cfg, kept[i])]

\* The loop of lines 155-161 without the test against the run's own set.
RECURSIVE UniqueNoSeen(_, _, _)
UniqueNoSeen(as, seen, seen_urls) ==
    IF as = <<>> THEN <<>>
    ELSE LET a == Head(as)
         IN  IF a.url # <<>> /\ a.url \notin seen_urls
             THEN <<[a EXCEPT !.score = @ + Score(a)]>>
                      \o UniqueNoSeen(Tail(as), seen \cup {a.url}, seen_urls)
             ELSE UniqueNoSeen(Tail(as), seen, seen_urls)

\* The loop of lines 155-161 keeping the last occurrence of a url.
RECURSIVE UniqueKeepsLast(_, _, _)
UniqueKeepsLast(as, seen, seen_urls) ==
    IF as = <<>> THEN <<>>
    ELSE LET a == Head(as)
             rest == Tail(as)
         IN  IF /\ \A k \in DOMAIN rest : rest[k].url # a.url
                /\ a.url # <<>>
                /\ a.url \notin seen_urls
             THEN <<[a EXCEPT !.score = @ + Score(a)]>>
                      \o UniqueKeepsLast(rest, seen, seen_urls)
             ELSE UniqueKeepsLast(rest, seen, seen_urls)

\* collect, lines 155-161: first occurrence of each non-empty url that is not
\* in seen_urls, with the keyword score added.
RECURSIVE Unique(_, _, _)
Unique(as, seen, seen_urls) ==
    IF as = <<>> THEN <<>>
    ELSE LET a == Head(as)
         IN  IF a.url \notin seen /\ a.url # <<>> /\ a.url \notin seen_urls
             THEN <<[a EXCEPT !.score = @ + Score(a)]>>
                      \o Unique(Tail(as), seen \cup {a.url}, seen_urls)
             ELSE Unique(Tail(as), seen, seen_urls)

\* A comparison that looks at the score alone.
ScoreGE(x, y) == x.score >= y.score

\* The sort key (a.score, a.published_at), compared as tuples.
KeyGE(x, y) ==
    \/ x.score > y.score
    \/ x.score = y.score /\ x.published_at >= y.published_at

\* A descending sort that puts an article before the earlier ones of its
\* key.
RECURSIVE SortDescUnstable(_)
SortDescUnstable(s) ==
    IF s = <<>> THEN <<>>
    ELSE LET t == SortDescUnstable(SubSeq(s, 1, Len(s) - 1))
             a == s[Len(s)]
             p == Cardinality({i \in DOMAIN t : KeyGE(t[i], a) /\ ~KeyGE(a, t[i])})
         IN  SubSeq(t, 1, p) \o <<a>> \o SubSeq(t, p + 1, Len(t))

\* list.sort(key=..., reverse=True): descending and stable.
RECURSIVE SortDesc(_)
SortDesc(s) ==
    IF s = <<>> THEN <<>>
    ELSE LET t == SortDesc(SubSeq(s, 1, Len(s) - 1))
             a == s[Len(s)]
             p == Cardinality({i \in DOMAIN t : KeyGE(t[i], a)})
         IN  SubSeq(t, 1, p) \o <<a>> \o SubSeq(t, p + 1, Len(t))

\* The greedy walk with the per-source test off by one.
RECURSIVE PickOffByOne(_, _, _, _, _)
PickOffByOne(unique, selected, source_counts, max_n, max_per_source) ==
    IF unique = <<>> \/ Len(selected) >= max_n THEN selected
    ELSE LET a == Head(unique)
             count == source_counts[a.source]
         IN  IF count <= max_per_source
             THEN PickOffByOne(Tail(unique), Append(selected, a),
                               [source_counts EXCEPT ![a.source] = count + 1],
                               max_n, max_per_source)
             ELSE PickOffByOne(Tail(unique), selected, source_counts, max_n,
                               max_per_source)

\* The walk ending at the first article whose source is at its cap.
RECURSIVE PickNoBackfill(_, _, _, _, _)
PickNoBackfill(unique, selected, source_counts, max_n, max_per_source) ==
    IF unique = <<>> \/ Len(selected) >= max_n THEN selected
    ELSE LET a == Head(unique)
             count == source_counts[a.source]
         IN  IF count < max_per_source
             THEN PickNoBackfill(Tail(unique), Append(selected, a),
                                 [source_counts EXCEPT ![a.source] = count + 1],
                                 max_n, max_per_source)
             ELSE selected

\* collect, lines 165-176: the greedy walk under both caps.
RECURSIVE Pick(_, _, _, _, _)
Pick(unique, selected, source_counts, max_n, max_per_source) ==
    IF unique = <<>> \/ Len(selected) >= max_n THEN selected
    ELSE LET a == Head(unique)
             count == source_counts[a.source]
         IN  IF count < max_per_source
             THEN Pick(Tail(unique), Append(selected, a),
                       [source_counts EXCEPT ![a.source] = count + 1],
                       max_n, max_per_source)
             ELSE Pick(Tail(unique), selected, source_counts, max_n, max_per_source)

DefaultMaxPerSource == 3

\* collect, lines 151-188, once every fetch is done.
Selected(fetched, file, cfg) ==
    LET seen_urls == LoadSeenUrls(file)
        unique == SortDesc(Unique(fetched, {}, seen_urls))
    IN  Pick(unique, <<>>, [s \in SourceNames |-> 0], cfg.max_articles,
             Get(cfg, "max_per_source", DefaultMaxPerSource))

\* ------------------------------------------- scripts/maintain_feeds.py
VARIABLES
    mpc,           \* where main() is
    sources_file,  \* config/sources.yml: the rss_feeds list
    health_file,   \* config/feed_health.json
    mconfig,       \* config/sources.yml: the maintenance block
    clock,         \* the wall clock
    dry_run,       \* --dry-run
    auto_add,      \* --auto-add
    grounding,     \* GEMINI_API_KEY is set and --skip-grounding is not given
    oracle_up,     \* the oracle answers with a text in this run
    obj,           \* the feed dicts of this run, by identity
    roster,        \* sources["rss_feeds"]: identities, in order
    health,        \* the health dict
    failed_feeds,  \* identities of the feeds whose probe failed
    now_iso,       \* run_health_checks: the run's timestamp
    loop_i,        \* index of the current loop
    probe_log,     \* the last probe of run_health_checks: url, outcome, count before
    queried,       \* identities of the feeds search_new_feed_url was called for
    asked,         \* the languages discover_new_feeds was called for
    response,      \* the text of the oracle's last answer
    found,         \* what search_new_feed_url returned for it
    answer,        \* the oracle's last answer to a discovery query
    discovered,    \* what discover_new_feeds did with it
    cand           \* lines 271-288: the candidates, their probes, the ones appended

maintVars ==
    <<mpc, sources_file, health_file, mconfig, clock, dry_run, auto_add, grounding,
      oracle_up, obj, roster, health, failed_feeds, now_iso, loop_i, probe_log, queried,
      asked>>

\* The last oracle call, followed only where the answer's text matters.
oracleVars == <<response, found, answer, discovered, cand>>

vars == <<scoutVars, maintVars, oracleVars>>

\* Maintenance runs the model follows.
MaxRuns == 2
\* Longest oracle answer, in tokens.
MaxResponseLen == 6
\* Most candidates one discovery answer holds.
MaxCandidates == 2

\* ------------------------------------------------------------ dicts
EmptyDict == <<>>

\* d[k] = v
Put(d, k, v) == [x \in DOMAIN d \cup {k} |-> IF x = k THEN v ELSE d[x]]

\* del d[k]
Del(d, k) == [x \in DOMAIN d \ {k} |-> d[x]]

\* None, for a timestamp; the clock starts after it.
None == 0

\* No url: what search_new_feed_url returns for None.
NoUrl == ""

\* ------------------------------------------------------------ the inputs
\* The urls of the feeds: what an http(s) url literal of an answer spells.
FeedUrlA == "https://a"
FeedUrlB == "https://b"
FeedUrls == {FeedUrlA, FeedUrlB}

Descriptor(name, url, language) ==
    [name |-> name, url |-> url, language |-> language, weight |-> 1]

\* The registry before the first run: one or two of these feeds, in any
\* order, a feed possibly listed twice, two feeds possibly sharing a url, and
\* two feeds possibly differing in their url alone.
InitialFeeds ==
    {Descriptor("A", FeedUrlA, "en"), Descriptor("A", FeedUrlB, "en"),
     Descriptor("B", FeedUrlA, "ja")}

InitialRosters ==
    {<<f>> : f \in InitialFeeds} \cup {<<f, g>> : f \in InitialFeeds, g \in InitialFeeds}

\* The maintenance block of config/sources.yml.
MaintenanceConfigs ==
    {[max_fail_count |-> n, auto_discover_languages |-> <<"en", "ja">>,
      max_feeds_per_language |-> 1] : n \in {1, 2}}
        \cup {[auto_discover_languages |-> <<"en", "ja">>, max_feeds_per_language |-> 2]}

\* What the oracle can propose for a language.
Candidates(lang) ==
    {Descriptor(n, u, lang) : n \in {"C"}, u \in FeedUrls}

\* ------------------------------------------------- run_health_checks
NoProbe == [url |-> NoUrl, alive |-> FALSE, before |-> -1]

\* The success branch without the reset of an existing record's count.
ProbeAliveKeepsCount(h, feed, now) ==
    LET url == feed.url
    IN  IF url \in DOMAIN h
        THEN Put(h, url, Put(h[url], "last_success", now))
        ELSE Put(h, url, [fail_count |-> 0, last_success |-> now, name |-> feed.name])

\* The success branch taking one failure off instead of all.
ProbeAliveDecrements(h, feed, now) ==
    LET url == feed.url
    IN  IF url \in DOMAIN h
        THEN Put(h, url, Put(Put(h[url], "fail_count",
                                 IF h[url].fail_count > 0 THEN h[url].fail_count - 1
                                 ELSE 0),
                             "last_success", now))
        ELSE Put(h, url, [fail_count |-> 0, last_success |-> now, name |-> feed.name])

\* Lines 103-109: the probe succeeded.
ProbeAlive(h, feed, now) ==
    LET url == feed.url
    IN  IF url \in DOMAIN h
        THEN Put(h, url, Put(Put(h[url], "fail_count", 0), "last_success", now))
        ELSE Put(h, url, [fail_count |-> 0, last_success |-> now, name |-> feed.name])

\* The failure branch setting the count to 1 instead of adding 1.
ProbeDeadSetsOne(h, feed, now) ==
    LET url == feed.url
        h1 == IF url \notin DOMAIN h
              THEN Put(h, url, [fail_count |-> 0, last_success |-> None,
                                name |-> feed.name])
              ELSE h
        r1 == Put(h1[url], "fail_count", 1)
    IN  Put(h1, url, Put(r1, "last_failure", now))

\* Lines 110-115: the probe failed.
ProbeDead(h, feed, now) ==
    LET url == feed.url
        h1 == IF url \notin DOMAIN h
              THEN Put(h, url, [fail_count |-> 0, last_success |-> None,
                                name |-> feed.name])
              ELSE h
        r1 == Put(h1[url], "fail_count", Get(h1[url], "fail_count", 0) + 1)
    IN  Put(h1, url, Put(r1, "last_failure", now))

DefaultMaxFailCount == 3

\* The test of line 124 with > for >=.
ToRemoveAbove(feeds, o, h, max_fail) ==
    SelectSeq(feeds, LAMBDA f :
        o[f].url \in DOMAIN h /\ Get(h[o[f].url], "fail_count", 0) > max_fail)

\* Lines 120-125: the feeds to remove, by identity.
ToRemove(feeds, o, h, max_fail) ==
    SelectSeq(feeds, LAMBDA f :
        o[f].url \in DOMAIN h /\ Get(h[o[f].url], "fail_count", 0) >= max_fail)

\* Membership by identity instead of by value.
InListByIdentity(feed, feeds, o) == \E k \in DOMAIN feeds : feeds[k] = feed

\* feed in feeds: list membership compares the dicts by value.
InList(feed, feeds, o) == \E k \in DOMAIN feeds : o[feeds[k]] = o[feed]

\* The eviction applied in a dry run too.
AfterEvictionAlways(feeds, o, h, max_fail, dry) ==
    LET to_remove == ToRemove(feeds, o, h, max_fail)
    IN  SelectSeq(feeds, LAMBDA f : ~InList(f, to_remove, o))

\* Lines 128-129: the roster run_health_checks returns.
AfterEviction(feeds, o, h, max_fail, dry) ==
    LET to_remove == ToRemove(feeds, o, h, max_fail)
    IN  IF to_remove # <<>> /\ ~dry
        THEN SelectSeq(feeds, LAMBDA f : ~InList(f, to_remove, o))
        ELSE feeds

MaintInit ==
    /\ mpc = "off"
    /\ sources_file \in InitialRosters
    /\ health_file = EmptyDict
    /\ mconfig \in MaintenanceConfigs
    /\ clock = 0
    /\ dry_run = FALSE
    /\ auto_add = FALSE
    /\ grounding = FALSE
    /\ oracle_up = FALSE
    /\ obj = <<>>
    /\ roster = <<>>
    /\ health = EmptyDict
    /\ failed_feeds = <<>>
    /\ now_iso = None
    /\ loop_i = 0
    /\ probe_log = NoProbe
    /\ queried = <<>>
    /\ asked = <<>>

\* main, lines 299-314: the flags, the two documents, and the start of
\* run_health_checks (lines 94-96).
StartMain ==
    /\ mpc \in {"off", "done", "failed"}
    /\ clock < 2 * MaxRuns
    /\ dry_run' \in BOOLEAN
    /\ auto_add' \in BOOLEAN
    /\ grounding' \in BOOLEAN
    /\ oracle_up' \in IF grounding' THEN BOOLEAN ELSE {FALSE}
    /\ obj' = sources_file
    /\ roster' = [i \in DOMAIN sources_file |-> i]
    /\ health' = health_file
    /\ failed_feeds' = <<>>
    /\ clock' = clock + 1
    /\ now_iso' = clock + 1
    /\ loop_i' = 1
    /\ probe_log' = NoProbe
    /\ queried' = <<>>
    /\ asked' = <<>>
    /\ mpc' = "probe"
    /\ UNCHANGED <<sources_file, health_file, mconfig, scoutVars, oracleVars>>

\* run_health_checks, lines 98-117: one feed of the loop.
HCProbe ==
    /\ mpc = "probe"
    /\ loop_i <= Len(roster)
    /\ LET feed == obj[roster[loop_i]]
           before == IF feed.url \in DOMAIN health
                     THEN health[feed.url].fail_count ELSE -1
       IN  \E alive \in BOOLEAN :
              /\ health' = IF alive THEN ProbeAlive(health, feed, now_iso)
                           ELSE ProbeDead(health, feed, now_iso)
              /\ failed_feeds' = IF alive THEN failed_feeds
                                 ELSE Append(failed_feeds, roster[loop_i])
              /\ probe_log' = [url |-> feed.url, alive |-> alive, before |-> before]
    /\ loop_i' = loop_i + 1
    /\ UNCHANGED <<mpc, sources_file, health_file, mconfig, clock, dry_run, auto_add,
                   grounding, oracle_up, obj, roster, now_iso, queried,
                   asked, scoutVars, oracleVars>>

\* run_health_checks, lines 119-131, and main, lines 317-324.
HCEvict ==
    /\ mpc = "probe"
    /\ loop_i > Len(roster)
    /\ roster' = AfterEviction(roster, obj, health,
                               Get(mconfig, "max_fail_count", DefaultMaxFailCount),
                               dry_run)
    /\ mpc' = IF grounding THEN "repair" ELSE "save"
    /\ loop_i' = 1
    /\ clock' = clock + 1
    /\ UNCHANGED <<sources_file, health_file, mconfig, dry_run, auto_add, grounding, oracle_up,
                   obj, health, failed_feeds, now_iso, probe_log, queried,
                   asked, scoutVars, oracleVars>>

\* ------------------------------------------- run_grounding_maintenance
\* Lines 239-250: the effect of a repair answer on the feed dict and on the
\* health dict.  The url is replaced first, so the record deleted is the one
\* under the url the feed has by then.
RepairedObj(o, f, new_url) == [o EXCEPT ![f] = Put(o[f], "url", new_url)]

\* The repair with the new record taking over the old url's failure count.
RepairedHealthCarriesCount(h, o, f, new_url, now) ==
    LET old == IF o[f].url \in DOMAIN h THEN h[o[f].url].fail_count ELSE 0
    IN  Put(h, new_url, [fail_count |-> old, last_success |-> now, name |-> o[f].name])

RepairedHealth(h, o, f, new_url, now) ==
    LET o1 == RepairedObj(o, f, new_url)
        h1 == IF o1[f].url \in DOMAIN h THEN Del(h, o1[f].url) ELSE h
    IN  Put(h1, new_url, [fail_count |-> 0, last_success |-> now, name |-> o1[f].name])

\* ------------------------------------------------- search_new_feed_url
\* An answer is a sequence of tokens: a scheme, a run of characters a url
\* may hold ("a", "b"), a blank, a "<" and the sentinel.
Schemes == {"http://", "https://"}

Delimiters == {" ", "<"}

Sentinel == "NOT_FOUND"

Tokens == Schemes \cup Delimiters \cup {"a", Sentinel}

\* No answer: None, or a text that is empty.
NoResponse == <<>>

\* _gemini_grounding_search: the stripped text of the answer; None without a
\* text or after an exception.
GroundingSearch(text) == IF text = <<>> THEN NoResponse ELSE Strip(text)

\* "".join
RECURSIVE Join(_)
Join(s) == IF s = <<>> THEN "" ELSE Head(s) \o Join(Tail(s))

\* [^\s<>"']+ at the start of s: the longest run without a delimiter.
RECURSIVE UrlRun(_)
UrlRun(s) ==
    IF s = <<>> \/ Head(s) \in Delimiters THEN <<>>
    ELSE <<Head(s)>> \o UrlRun(Tail(s))

\* re.findall(r'https?://[^\s<>"\']+', s): the matches from left to right,
\* none overlapping an earlier one.
RECURSIVE FindAll(_)
FindAll(s) ==
    IF s = <<>> THEN <<>>
    ELSE LET run == UrlRun(Tail(s))
         IN  IF Head(s) \in Schemes /\ run # <<>>
             THEN <<Join(<<Head(s)>> \o run)>>
                      \o FindAll(SubSeq(s, Len(run) + 2, Len(s)))
             ELSE FindAll(Tail(s))

\* search_new_feed_url with the last match taken instead of the first.
SearchNewFeedUrlLast(result) ==
    IF result # NoResponse /\ Sentinel \notin Range(result)
    THEN LET urls == FindAll(result)
         IN  IF urls # <<>> THEN urls[Len(urls)] ELSE NoUrl
    ELSE NoUrl

\* search_new_feed_url, lines 168-175, for the answer result.
SearchNewFeedUrl(result) ==
    IF result # NoResponse /\ Sentinel \notin Range(result)
    THEN LET urls == FindAll(result)
         IN  IF urls # <<>> THEN urls[1] ELSE NoUrl
    ELSE NoUrl

\* The answers to a repair query the maintenance runs are followed for.
RepairResponses ==
    { NoResponse,
      <<"https://", "a">>,
      <<"a", " ", "https://", "b", " ", "a">> }

\* What _gemini_grounding_search gets from the oracle in this run: nothing
\* (an exception, or a response without text) while the oracle is down.
RepairAnswers == IF oracle_up THEN RepairResponses ELSE {NoResponse}

\* Lines 233-253: one failed feed of the repair loop; text is the oracle's
\* answer to the query, if one is issued.
RepairWith(text) ==
    /\ mpc = "repair"
    /\ loop_i <= Len(failed_feeds)
    /\ LET f == failed_feeds[loop_i]
           new_url == SearchNewFeedUrl(GroundingSearch(text))
       IN  \/ /\ ~InList(f, roster, obj)
              /\ UNCHANGED <<obj, health, queried>>
           \/ /\ InList(f, roster, obj)
              /\ queried' = Append(queried, f)
              /\ IF new_url # NoUrl /\ new_url # obj[f].url /\ ~dry_run
                 THEN /\ obj' = RepairedObj(obj, f, new_url)
                      /\ health' = RepairedHealth(health, obj, f, new_url, clock)
                 ELSE UNCHANGED <<obj, health>>
    /\ loop_i' = loop_i + 1
    /\ UNCHANGED <<mpc, sources_file, health_file, mconfig, clock, dry_run, auto_add,
                   grounding, oracle_up, roster, failed_feeds, now_iso, probe_log, asked, scoutVars>>

Repair ==
    /\ \E text \in RepairAnswers : RepairWith(text)
    /\ UNCHANGED oracleVars

\* Lines 255-259: the repair loop is over.
RepairDone ==
    /\ mpc = "repair"
    /\ loop_i > Len(failed_feeds)
    /\ mpc' = "discover"
    /\ loop_i' = 1
    /\ UNCHANGED <<sources_file, health_file, mconfig, clock, dry_run, auto_add,
                   grounding, oracle_up, obj, roster, health, failed_feeds, now_iso, probe_log,
                   queried,
                   asked, scoutVars, oracleVars>>

\* ------------------------------------------------- discover_new_feeds
\* The text of a discovery answer is a sequence of tokens: a code fence
\* with or without its "json" tag, a blank, a word that is not JSON, and the
\* place of a JSON document, which is doc wherever it stands.  A fence is
\* three backquotes; its tag is the word json right behind them.
Fence == "FENCE"
FenceJson == "FENCE_JSON"
Blank == " "
Word == "a"
DocToken == "DOC"
AnswerTokens == {Fence, FenceJson, Blank, Word, DocToken}

\* Longest discovery answer, in tokens, and most items of a JSON list.
MaxAnswerLen == 3
MaxItems == 2

\* JSON values a weight can be: a number, a string that spells a number, a
\* string that does not, null, a list.
Weights ==
    {[type |-> "number", val |-> 2],
     [type |-> "string", text |-> "2"],
     [type |-> "string", text |-> "high"],
     [type |-> "null"],
     [type |-> "list"]}

\* The items of a list: a string, or an object with any of the keys name,
\* url and weight.
ItemKeys == {"name", "url", "weight"}

ItemDicts ==
    {[k \in K |-> full[k]] :
        full \in [name : {"C"}, url : {FeedUrlA}, weight : Weights],
        K \in SUBSET ItemKeys}

Items ==
    {[type |-> "string", text |-> "high"]}
        \cup {[type |-> "object", fields |-> d] : d \in ItemDicts}

\* The documents: a list of items, an object, a number.
Docs ==
    {[type |-> "list", items |-> s] : s \in BoundedSeq(Items, MaxItems)}
        \cup {[type |-> "object", fields |-> EmptyDict], [type |-> "number", val |-> 2]}

\* The strings float() reads as a number.
Numerals == "2" :> 2

\* float(v), line 212: the number, or the exception raised.
FloatOf(v) ==
    CASE v.type = "number" -> [error |-> "", val |-> v.val]
      [] v.type = "string" ->
            IF v.text \in DOMAIN Numerals
            THEN [error |-> "", val |-> Numerals[v.text]]
            ELSE [error |-> "ValueError", val |-> 0]
      [] OTHER -> [error |-> "TypeError", val |-> 0]

\* Line 200: each fence, its tag and the whitespace behind it are removed.
RECURSIVE Unfence(_)
Unfence(s) ==
    IF s = <<>> THEN <<>>
    ELSE IF Head(s) \in {Fence, FenceJson} THEN Unfence(LStrip(Tail(s)))
    ELSE <<Head(s)>> \o Unfence(Tail(s))

\* json.loads, line 203: a text that is one document and nothing else
\* decodes to the document; any other text raises JSONDecodeError.
JsonLoads(s, doc) ==
    IF s = <<DocToken>> THEN [error |-> FALSE, value |-> doc]
    ELSE [error |-> TRUE, value |-> doc]

\* The weight of an item without one, line 212.
DefaultWeight == 1

\* No oracle call is followed.
NoDiscovery == [raised |-> FALSE, feeds |-> <<>>]

\* Lines 205-214 and 215-217: the items in order.  A TypeError of float()
\* is not among the exceptions line 215 catches and leaves the function; a
\* ValueError is caught, and the function returns the empty list.
RECURSIVE ValidFeeds(_, _, _)
ValidFeeds(items, language, valid) ==
    IF items = <<>> THEN [raised |-> FALSE, feeds |-> valid]
    ELSE LET f == Head(items)
         IN  IF f.type = "object" /\ "name" \in DOMAIN f.fields /\ "url" \in DOMAIN f.fields
             THEN LET w == FloatOf(Get(f.fields, "weight",
                                       [type |-> "number", val |-> DefaultWeight]))
                  IN  IF w.error = "TypeError" THEN [raised |-> TRUE, feeds |-> <<>>]
                      ELSE IF w.error = "ValueError" THEN NoDiscovery
                      ELSE ValidFeeds(Tail(items), language,
                               Append(valid, [name |-> f.fields.name, url |-> f.fields.url,
                                              language |-> language, weight |-> w.val]))
             ELSE ValidFeeds(Tail(items), language, valid)

\* Lines 200-201: the text json.loads is given.
Cleaned(result) == Strip(Unfence(result))

\* discover_new_feeds without the test of lines 194-195: re.sub is given
\* None and raises.
DiscoverNewFeedsUnguarded(language, text, doc) ==
    LET result == GroundingSearch(text)
    IN  IF result = NoResponse THEN [raised |-> TRUE, feeds |-> <<>>]
        ELSE LET feeds == JsonLoads(Cleaned(result), doc)
             IN  IF feeds.error THEN NoDiscovery
                 ELSE IF feeds.value.type = "list"
                 THEN ValidFeeds(feeds.value.items, language, <<>>)
                 ELSE NoDiscovery

\* discover_new_feeds, lines 193-217, for the answer text around doc.
DiscoverNewFeeds(language, text, doc) ==
    LET result == GroundingSearch(text)
    IN  IF result = NoResponse THEN NoDiscovery
        ELSE LET feeds == JsonLoads(Cleaned(result), doc)
             IN  IF feeds.error THEN NoDiscovery
                 ELSE IF feeds.value.type = "list"
                 THEN ValidFeeds(feeds.value.items, language, <<>>)
                 ELSE NoDiscovery

\* No discovery answer.
NoAnswer == [language |-> "", text |-> <<>>, doc |-> [type |-> "null"]]

DefaultLanguages == <<"en", "ja", "zh">>
DefaultMaxFeedsPerLanguage == 8

CountLanguage(feeds, o, lang) ==
    Cardinality({k \in DOMAIN feeds : Get(o[feeds[k]], "language", "") = lang})

\* The loop of lines 271-288 adding a candidate whatever its probe said.
RECURSIVE AddCandidatesUnprobed(_, _, _, _, _)
AddCandidatesUnprobed(r, new_feeds, alive, k, commit) ==
    IF k > Len(new_feeds) THEN r
    ELSE LET nf == new_feeds[k]
             existing_urls == {r.obj[r.roster[j]].url : j \in DOMAIN r.roster}
         IN  IF nf.url \in existing_urls
             THEN AddCandidatesUnprobed(r, new_feeds, alive, k + 1, commit)
             ELSE IF commit
             THEN AddCandidatesUnprobed(
                      [obj |-> Append(r.obj, nf),
                       roster |-> Append(r.roster, Len(r.obj) + 1),
                       probed |-> Append(r.probed, k),
                       appended |-> Append(r.appended, k)],
                      new_feeds, alive, k + 1, commit)
             ELSE AddCandidatesUnprobed([r EXCEPT !.probed = Append(@, k)],
                                        new_feeds, alive, k + 1, commit)

\* The loop of lines 271-288 appending every live candidate, whatever the
\* commit mode.
RECURSIVE AddCandidatesUngated(_, _, _, _, _)
AddCandidatesUngated(r, new_feeds, alive, k, commit) ==
    IF k > Len(new_feeds) THEN r
    ELSE LET nf == new_feeds[k]
             existing_urls == {r.obj[r.roster[j]].url : j \in DOMAIN r.roster}
         IN  IF nf.url \in existing_urls
             THEN AddCandidatesUngated(r, new_feeds, alive, k + 1, commit)
             ELSE IF alive[k]
             THEN AddCandidatesUngated(
                      [obj |-> Append(r.obj, nf),
                       roster |-> Append(r.roster, Len(r.obj) + 1),
                       probed |-> Append(r.probed, k),
                       appended |-> Append(r.appended, k)],
                      new_feeds, alive, k + 1, commit)
             ELSE AddCandidatesUngated([r EXCEPT !.probed = Append(@, k)],
                                       new_feeds, alive, k + 1, commit)

\* Lines 271-288: the candidates of one answer, in order; alive[k] is what
\* check_feed_health says of the k-th one when it is called for it.  r has
\* the feed dicts, the roster, and the indices of the candidates probed and
\* of those appended so far.
RECURSIVE AddCandidates(_, _, _, _, _)
AddCandidates(r, new_feeds, alive, k, commit) ==
    IF k > Len(new_feeds) THEN r
    ELSE LET nf == new_feeds[k]
             existing_urls == {r.obj[r.roster[j]].url : j \in DOMAIN r.roster}
         IN  IF nf.url \in existing_urls
             THEN AddCandidates(r, new_feeds, alive, k + 1, commit)
             ELSE IF alive[k] /\ commit
             THEN AddCandidates(
                      [obj |-> Append(r.obj, nf),
                       roster |-> Append(r.roster, Len(r.obj) + 1),
                       probed |-> Append(r.probed, k),
                       appended |-> Append(r.appended, k)],
                      new_feeds, alive, k + 1, commit)
             ELSE AddCandidates([r EXCEPT !.probed = Append(@, k)],
                                new_feeds, alive, k + 1, commit)

\* The candidates taken without regard to the free slots.
TakenAll(new_feeds, slots) == new_feeds

\* new_feeds[:slots], for slots >= 1.
Taken(new_feeds, slots) ==
    SubSeq(new_feeds, 1, IF slots < Len(new_feeds) THEN slots ELSE Len(new_feeds))

\* Lines 261-290 for the language at loop_i: the count, the free slots, and
\* what the loop of lines 271-288 makes of the answer new_feeds.
DiscoverLanguages == Get(mconfig, "auto_discover_languages", DefaultLanguages)

DiscoverLang == DiscoverLanguages[loop_i]

DiscoverSlots ==
    Get(mconfig, "max_feeds_per_language", DefaultMaxFeedsPerLanguage)
        - CountLanguage(roster, obj, DiscoverLang)

DiscoverOutcome(new_feeds, alive) ==
    AddCandidates([obj |-> obj, roster |-> roster, probed |-> <<>>, appended |-> <<>>],
                  Taken(new_feeds, DiscoverSlots), alive, 1, auto_add /\ ~dry_run)

\* Lines 261-290: one language of the discovery loop; new_feeds is what
\* discover_new_feeds returned, if it is called.
DiscoverWith(new_feeds, alive) ==
    /\ mpc = "discover"
    /\ loop_i <= Len(DiscoverLanguages)
    /\ \/ /\ DiscoverSlots <= 0
          /\ UNCHANGED <<obj, roster, asked>>
       \/ /\ DiscoverSlots > 0
          /\ asked' = Append(asked, DiscoverLang)
          /\ obj' = DiscoverOutcome(new_feeds, alive).obj
          /\ roster' = DiscoverOutcome(new_feeds, alive).roster
    /\ loop_i' = loop_i + 1
    /\ UNCHANGED <<mpc, sources_file, health_file, mconfig, clock, dry_run, auto_add,
                   grounding, oracle_up, health, failed_feeds, now_iso, probe_log, queried,
                   scoutVars>>

\* An answer discover_new_feeds cannot take: a list whose item has a name,
\* a url and a weight of null.
RaisingDoc ==
    [type |-> "list",
     items |-> <<[type |-> "object",
                  fields |-> [name |-> "C", url |-> FeedUrlA,
                              weight |-> [type |-> "null"]]]>>]

\* What discover_new_feeds does for the language in this run: any list of
\* candidates, or the exception of RaisingDoc, while the oracle answers;
\* what it makes of no answer while the oracle is down.
DiscoverReturns(language) ==
    IF oracle_up
    THEN {[raised |-> FALSE, feeds |-> s] :
             s \in BoundedSeq(Candidates(language), MaxCandidates)}
         \cup {DiscoverNewFeeds(language, <<DocToken>>, RaisingDoc)}
    ELSE {DiscoverNewFeeds(language, NoResponse, NoAnswer.doc)}

Discover ==
    /\ mpc = "discover"
    /\ loop_i <= Len(DiscoverLanguages)
    /\ \E out \in DiscoverReturns(DiscoverLang) :
       \E alive \in [DOMAIN out.feeds -> BOOLEAN] :
          /\ ~out.raised
          /\ DiscoverWith(out.feeds, alive)
    /\ UNCHANGED oracleVars

\* Line 269 raising: nothing up to main catches the exception, and the
\* process ends before line 326.
DiscoverRaises ==
    /\ mpc = "discover"
    /\ loop_i <= Len(DiscoverLanguages)
    /\ DiscoverSlots > 0
    /\ \E out \in DiscoverReturns(DiscoverLang) : out.raised
    /\ asked' = Append(asked, DiscoverLang)
    /\ mpc' = "failed"
    /\ UNCHANGED <<sources_file, health_file, mconfig, clock, dry_run, auto_add,
                   grounding, oracle_up, obj, roster, health, failed_feeds, now_iso,
                   loop_i, probe_log, queried, scoutVars, oracleVars>>

\* Line 292: run_grounding_maintenance returns.
DiscoverDone ==
    /\ mpc = "discover"
    /\ loop_i > Len(Get(mconfig, "auto_discover_languages", DefaultLanguages))
    /\ mpc' = "save"
    /\ loop_i' = 1
    /\ UNCHANGED <<sources_file, health_file, mconfig, clock, dry_run, auto_add,
                   grounding, oracle_up, obj, roster, health, failed_feeds, now_iso, probe_log,
                   queried,
                   asked, scoutVars, oracleVars>>

\* main, lines 326-337: both documents are written unless --dry-run.
SaveAll ==
    /\ mpc = "save"
    /\ IF ~dry_run
       THEN /\ sources_file' = [k \in DOMAIN roster |-> obj[roster[k]]]
            /\ health_file' = health
       ELSE UNCHANGED <<sources_file, health_file>>
    /\ mpc' = "done"
    /\ UNCHANGED <<mconfig, clock, dry_run, auto_add, grounding, oracle_up, obj, roster, health,
                   failed_feeds, now_iso, loop_i, probe_log, queried,
                   asked, scoutVars, oracleVars>>

NoCandidates ==
    [taken |-> <<>>, alive |-> <<>>, probed |-> <<>>, appended |-> <<>>, before |-> 0]

OracleIdle ==
    /\ response = NoResponse
    /\ found = NoUrl
    /\ answer = NoAnswer
    /\ discovered = NoDiscovery
    /\ cand = NoCandidates

MaintNext ==
    \/ StartMain
    \/ HCProbe
    \/ HCEvict
    \/ Repair
    \/ RepairDone
    \/ Discover
    \/ DiscoverRaises
    \/ DiscoverDone
    \/ SaveAll

\* The maintenance tool is not running.
MaintIdle ==
    /\ mpc = "off"
    /\ sources_file = <<>>
    /\ health_file = EmptyDict
    /\ mconfig = [max_fail_count |-> DefaultMaxFailCount]
    /\ clock = 0
    /\ dry_run = FALSE
    /\ auto_add = FALSE
    /\ grounding = FALSE
    /\ oracle_up = FALSE
    /\ obj = <<>>
    /\ roster = <<>>
    /\ health = EmptyDict
    /\ failed_feeds = <<>>
    /\ now_iso = None
    /\ loop_i = 0
    /\ probe_log = NoProbe
    /\ queried = <<>>
    /\ asked = <<>>

\* ------------------------------------------ scripts/run_pipeline.py: run()
Terminal == {"done", "exit0", "exit1", "failed"}

Urls_of(as) == [i \in DOMAIN as |-> as[i].url]

ScoutInit ==
    /\ pc = "newsapi"
    /\ seen_file = <<>>
    /\ config \in SelectionConfigs
    /\ api_key \in BOOLEAN
    /\ all_articles = <<>>
    /\ feed_i = 0
    /\ fetch_errors = {}
    /\ articles = <<>>
    /\ seen_at_start = <<>>
    /\ steps_done = {}
    /\ save_args = <<>>

\* The next day's run: a new process, line 49.
StartRun ==
    /\ pc \in Terminal
    /\ Len(seen_file) < MaxSeenLines
    /\ pc' = "newsapi"
    /\ all_articles' = <<>>
    /\ feed_i' = 0
    /\ fetch_errors' = {}
    /\ articles' = <<>>
    /\ seen_at_start' = seen_file
    /\ steps_done' = {}
    /\ UNCHANGED <<seen_file, config, api_key, save_args, maintVars, oracleVars>>

\* collect, lines 136-141: the NewsAPI fetch, skipped without a key; an
\* exception is caught.
CollectNewsApi ==
    /\ pc = "newsapi"
    /\ pc' = "rss"
    /\ feed_i' = 1
    /\ \/ /\ ~api_key
          /\ UNCHANGED <<all_articles, fetch_errors>>
       \/ /\ api_key
          /\ fetch_errors' = fetch_errors \cup {NewsApiSource}
          /\ UNCHANGED all_articles
       \/ /\ api_key
          /\ \E items \in BoundedSeq(Entries, MaxFetched - Len(all_articles)) :
                all_articles' = all_articles \o FetchNewsApi(items)
          /\ UNCHANGED fetch_errors
    /\ UNCHANGED <<seen_file, config, api_key, articles, seen_at_start, steps_done,
                   save_args, maintVars, oracleVars>>

\* The feed loop with an exception ending it: the feeds behind the failing
\* one are not fetched.
CollectRssAborting ==
    /\ pc = "rss"
    /\ feed_i <= Len(RssFeeds)
    /\ \/ /\ fetch_errors' = fetch_errors \cup {RssFeeds[feed_i].name}
          /\ feed_i' = Len(RssFeeds) + 1
          /\ UNCHANGED all_articles
       \/ /\ \E entries \in BoundedSeq(Entries, MaxFetched - Len(all_articles)) :
                all_articles' = all_articles \o FetchRss(RssFeeds[feed_i], entries)
          /\ feed_i' = feed_i + 1
          /\ UNCHANGED fetch_errors
    /\ UNCHANGED <<pc, seen_file, config, api_key, articles, seen_at_start,
                   steps_done, save_args, maintVars, oracleVars>>

\* collect, lines 144-149: one feed of the loop; an exception is caught.
CollectRss ==
    /\ pc = "rss"
    /\ feed_i <= Len(RssFeeds)
    /\ feed_i' = feed_i + 1
    /\ \/ /\ fetch_errors' = fetch_errors \cup {RssFeeds[feed_i].name}
          /\ UNCHANGED all_articles
       \/ /\ \E entries \in BoundedSeq(Entries, MaxFetched - Len(all_articles)) :
                all_articles' = all_articles \o FetchRss(RssFeeds[feed_i], entries)
          /\ UNCHANGED fetch_errors
    /\ UNCHANGED <<pc, seen_file, config, api_key, articles, seen_at_start,
                   steps_done, save_args, maintVars, oracleVars>>

\* An empty selection treated as a failure of the run.
CollectSelectEmptyFails ==
    /\ pc = "rss"
    /\ feed_i > Len(RssFeeds)
    /\ articles' = Selected(all_articles, seen_file, config)
    /\ pc' = IF articles' = <<>> THEN "exit1" ELSE "editor"
    /\ UNCHANGED <<seen_file, config, api_key, all_articles, feed_i, fetch_errors,
                   seen_at_start, steps_done, save_args, maintVars, oracleVars>>

\* collect, lines 151-188, and run(), lines 72-73.
CollectSelect ==
    /\ pc = "rss"
    /\ feed_i > Len(RssFeeds)
    /\ articles' = Selected(all_articles, seen_file, config)
    /\ pc' = IF articles' = <<>> THEN "announce" ELSE "editor"
    /\ UNCHANGED <<seen_file, config, api_key, all_articles, feed_i, fetch_errors,
                   seen_at_start, steps_done, save_args, maintVars, oracleVars>>

\* collect() has returned: its locals are gone.
CollectReturned ==
    /\ all_articles' = <<>>
    /\ feed_i' = 0
    /\ fetch_errors' = {}

\* run(), lines 74-95: the no-news announcement (synthesis, feed update),
\* then sys.exit(0); an exception ends the run.
Announce ==
    /\ pc = "announce"
    /\ \/ pc' = "exit0" /\ steps_done' = {"audio", "feed"}
       \/ pc' = "failed" /\ steps_done' \in {{}, {"audio"}}
    /\ CollectReturned
    /\ UNCHANGED <<seen_file, config, api_key, articles, seen_at_start, save_args,
                   maintVars, oracleVars>>

\* The script step with the urls recorded before the script is generated.
EditorSavesFirst ==
    /\ pc = "editor"
    /\ seen_file' = SaveSeenUrls(Urls_of(articles), seen_file)
    /\ \/ pc' = "voice" /\ steps_done' = steps_done \cup {"script"}
       \/ pc' \in {"exit1", "failed"} /\ UNCHANGED steps_done
    /\ CollectReturned
    /\ UNCHANGED <<config, api_key, articles, seen_at_start, save_args, maintVars, oracleVars>>

\* run(), lines 99-102: the script; an empty body ends the run with status 1,
\* an exception ends it too.
Editor ==
    /\ pc = "editor"
    /\ \/ pc' = "voice" /\ steps_done' = steps_done \cup {"script"}
       \/ pc' \in {"exit1", "failed"} /\ UNCHANGED steps_done
    /\ CollectReturned
    /\ UNCHANGED <<seen_file, config, api_key, articles, seen_at_start, save_args,
                   maintVars, oracleVars>>

\* run(), lines 108-155: synthesis, concatenation and conversion.
Voice ==
    /\ pc = "voice"
    /\ \/ pc' = "feed" /\ steps_done' = steps_done \cup {"audio"}
       \/ pc' = "failed" /\ UNCHANGED steps_done
    /\ UNCHANGED <<seen_file, config, api_key, all_articles, feed_i, fetch_errors,
                   articles, seen_at_start, save_args, maintVars, oracleVars>>

\* run(), lines 158-170: the subtitles and the feed document.
UpdateFeed ==
    /\ pc = "feed"
    /\ \/ pc' = "save" /\ steps_done' = steps_done \cup {"feed"}
       \/ pc' = "failed" /\ UNCHANGED steps_done
    /\ UNCHANGED <<seen_file, config, api_key, all_articles, feed_i, fetch_errors,
                   articles, seen_at_start, save_args, maintVars, oracleVars>>

\* run(), line 173.
SaveSeen ==
    /\ pc = "save"
    /\ save_args' = Urls_of(articles)
    /\ seen_file' = SaveSeenUrls(Urls_of(articles), seen_file)
    /\ pc' = "done"
    /\ UNCHANGED <<config, api_key, all_articles, feed_i, fetch_errors, articles,
                   seen_at_start, steps_done, maintVars, oracleVars>>

Init == ScoutInit /\ MaintIdle /\ OracleIdle

Next ==
    \/ StartRun
    \/ CollectNewsApi
    \/ CollectRss
    \/ CollectSelect
    \/ Announce
    \/ Editor
    \/ Voice
    \/ UpdateFeed
    \/ SaveSeen

Spec == Init /\ [][Next]_vars

\* The pipeline is not running.
ScoutIdle ==
    /\ pc = "off"
    /\ seen_file = <<>>
    /\ config = [max_articles |-> 1]
    /\ api_key = FALSE
    /\ all_articles = <<>>
    /\ feed_i = 0
    /\ fetch_errors = {}
    /\ articles = <<>>
    /\ seen_at_start = <<>>
    /\ steps_done = {}
    /\ save_args = <<>>

\* The maintenance tool alone, run after run.
MaintSpecInit == MaintInit /\ ScoutIdle /\ OracleIdle

MaintSpec == MaintSpecInit /\ [][MaintNext]_vars

\* save_seen_urls called directly, with any urls argument, call after call.
SaveInit ==
    /\ pc = "call"
    /\ seen_file = <<>>
    /\ config = [max_articles |-> 1]
    /\ api_key = FALSE
    /\ all_articles = <<>>
    /\ feed_i = 0
    /\ fetch_errors = {}
    /\ articles = <<>>
    /\ seen_at_start = <<>>
    /\ steps_done = {}
    /\ save_args = <<>>

CallSaveSeenUrls ==
    /\ pc = "call"
    /\ Len(seen_file) <= MaxSeenLines
    /\ \E urls \in BoundedSeq(Urls, MaxSaveArgs) :
          /\ save_args' = urls
          /\ seen_file' = SaveSeenUrls(urls, seen_file)
    /\ UNCHANGED <<pc, config, api_key, all_articles, feed_i, fetch_errors, articles,
                   seen_at_start, steps_done, maintVars, oracleVars>>

SaveSpecInit == SaveInit /\ MaintIdle /\ OracleIdle

SaveSpec == SaveSpecInit /\ [][CallSaveSeenUrls]_vars

\* The fetchers alone: one call of fetch_rss or fetch_newsapi, for sources
\* that publish entries of any date from before the cutoff to after the
\* time of the fetch.
DatedEntries ==
    {[url |-> UrlU, title |-> <<"x">>, summary |-> <<>>, published_at |-> d,
      source |-> "X"] : d \in (Now - HoursLookback - 1)..(Now + 1)}

CallFetchRss ==
    /\ pc = "off"
    /\ \E k \in DOMAIN RssFeeds :
       \E entries \in BoundedSeq(DatedEntries, MaxFetched) :
          /\ all_articles' = FetchRss(RssFeeds[k], entries)
          /\ feed_i' = k
    /\ pc' = "fetched"
    /\ UNCHANGED <<seen_file, config, api_key, fetch_errors, articles, seen_at_start,
                   steps_done, save_args, maintVars, oracleVars>>

CallFetchNewsApi ==
    /\ pc = "off"
    /\ \E items \in BoundedSeq(DatedEntries, MaxFetched) :
          all_articles' = FetchNewsApi(items)
    /\ pc' = "fetched"
    /\ UNCHANGED <<seen_file, config, api_key, feed_i, fetch_errors, articles,
                   seen_at_start, steps_done, save_args, maintVars, oracleVars>>

FetchSpecInit == ScoutIdle /\ MaintIdle /\ OracleIdle

FetchNext ==
    \/ CallFetchRss
    \/ CallFetchNewsApi

FetchSpec == FetchSpecInit /\ [][FetchNext]_vars

\* The saves of main, write by write, with the process killed at any point.
\* The run is the second of a registry of two feeds, without a key and not
\* a dry run: in the run before, the first feed failed and the second was
\* alive; in this one the first failed again.
HealthBefore ==
    ProbeAlive(ProbeDead(EmptyDict, obj[1], 1), obj[2], 1)

PersistInit ==
    /\ mpc = "save"
    /\ sources_file \in {r \in InitialRosters : Len(r) = 2}
    /\ obj = sources_file
    /\ health_file = HealthBefore
    /\ mconfig \in MaintenanceConfigs
    /\ clock = 4
    /\ dry_run = FALSE
    /\ auto_add = FALSE
    /\ grounding = FALSE
    /\ oracle_up = FALSE
    /\ now_iso = 3
    /\ \E alive \in BOOLEAN :
          /\ health = IF alive
                      THEN ProbeAlive(ProbeDead(HealthBefore, obj[1], 3), obj[2], 3)
                      ELSE ProbeDead(ProbeDead(HealthBefore, obj[1], 3), obj[2], 3)
          /\ failed_feeds = IF alive THEN <<1>> ELSE <<1, 2>>
          /\ probe_log = [url |-> obj[2].url, alive |-> alive,
                          before |-> ProbeDead(HealthBefore, obj[1], 3)[obj[2].url].fail_count]
    /\ roster = AfterEviction(<<1, 2>>, obj, health,
                              Get(mconfig, "max_fail_count", DefaultMaxFailCount), FALSE)
    /\ loop_i = 1
    /\ queried = <<>>
    /\ asked = <<>>

\* The document _save_sources writes, as a list of feeds.
NewSources == [k \in DOMAIN roster |-> obj[roster[k]]]

\* Lines 46 and 59: open(path, "w") truncates the file.
OpenSources ==
    /\ mpc = "save"
    /\ ~dry_run
    /\ sources_file' = <<>>
    /\ mpc' = "write_sources"
    /\ UNCHANGED <<health_file, mconfig, clock, dry_run, auto_add, grounding, oracle_up,
                   obj, roster, health, failed_feeds, now_iso, loop_i, probe_log,
                   queried, asked, scoutVars, oracleVars>>

\* Line 47: yaml.dump writes the document to the stream, feed after feed.
WriteSources ==
    /\ mpc = "write_sources"
    /\ Len(sources_file) < Len(NewSources)
    /\ sources_file' = Append(sources_file, NewSources[Len(sources_file) + 1])
    /\ UNCHANGED <<mpc, health_file, mconfig, clock, dry_run, auto_add, grounding,
                   oracle_up, obj, roster, health, failed_feeds, now_iso, loop_i,
                   probe_log, queried, asked, scoutVars, oracleVars>>

\* _save_sources returns; line 59.
OpenHealth ==
    /\ mpc = "write_sources"
    /\ sources_file = NewSources
    /\ health_file' = EmptyDict
    /\ mpc' = "write_health"
    /\ UNCHANGED <<sources_file, mconfig, clock, dry_run, auto_add, grounding, oracle_up,
                   obj, roster, health, failed_feeds, now_iso, loop_i, probe_log,
                   queried, asked, scoutVars, oracleVars>>

\* Line 60: json.dump writes the dict to the stream, record after record.
WriteHealth ==
    /\ mpc = "write_health"
    /\ DOMAIN health_file # DOMAIN health
    /\ LET u == CHOOSE u \in DOMAIN health \ DOMAIN health_file : TRUE
       IN  health_file' = Put(health_file, u, health[u])
    /\ UNCHANGED <<mpc, sources_file, mconfig, clock, dry_run, auto_add, grounding,
                   oracle_up, obj, roster, health, failed_feeds, now_iso, loop_i,
                   probe_log, queried, asked, scoutVars, oracleVars>>

\* _save_health returns and main ends.
SavesDone ==
    /\ mpc = "write_health"
    /\ health_file = health
    /\ mpc' = "done"
    /\ UNCHANGED <<sources_file, health_file, mconfig, clock, dry_run, auto_add,
                   grounding, oracle_up, obj, roster, health, failed_feeds, now_iso,
                   loop_i, probe_log, queried, asked, scoutVars, oracleVars>>

\* The process is killed while it saves.
Killed ==
    /\ mpc \in {"save", "write_sources", "write_health"}
    /\ mpc' = "killed"
    /\ UNCHANGED <<sources_file, health_file, mconfig, clock, dry_run, auto_add,
                   grounding, oracle_up, obj, roster, health, failed_feeds, now_iso,
                   loop_i, probe_log, queried, asked, scoutVars, oracleVars>>

PersistSpecInit == PersistInit /\ ScoutIdle /\ OracleIdle

PersistNext ==
    \/ OpenSources
    \/ WriteSources
    \/ OpenHealth
    \/ WriteHealth
    \/ SavesDone
    \/ Killed

PersistSpec == PersistSpecInit /\ [][PersistNext]_vars

\* The oracle's answers alone: a run with one feed in the roster, whose
\* probe failed, either at the repair loop or, no url found for the feed,
\* at the discovery loop; then any answer to the query.
OracleInit ==
    /\ mpc \in {"repair", "discover"}
    /\ sources_file = <<Descriptor("A", FeedUrlB, "en")>>
    /\ health_file = EmptyDict
    /\ mconfig \in {c \in MaintenanceConfigs : "max_fail_count" \notin DOMAIN c}
    /\ clock = 2
    /\ dry_run \in BOOLEAN
    /\ auto_add \in BOOLEAN
    /\ grounding = TRUE
    /\ oracle_up = TRUE
    /\ obj = sources_file
    /\ roster = <<1>>
    /\ health = ProbeDead(EmptyDict, sources_file[1], 1)
    /\ failed_feeds = <<1>>
    /\ now_iso = 1
    /\ loop_i = 1
    /\ probe_log = [url |-> FeedUrlB, alive |-> FALSE, before |-> -1]
    /\ queried = IF mpc = "repair" THEN <<>> ELSE <<1>>
    /\ asked = <<>>

\* Lines 238-252 for any answer.
OracleRepair ==
    /\ mpc = "repair"
    /\ loop_i <= Len(failed_feeds)
    /\ \E text \in BoundedSeq(Tokens, MaxResponseLen) :
          /\ RepairWith(text)
          /\ response' = text
          /\ found' = SearchNewFeedUrl(GroundingSearch(text))
          /\ UNCHANGED <<answer, discovered, cand>>

\* Lines 261-290 for any list discover_new_feeds can return and any probes.
OracleAdd ==
    /\ mpc = "discover"
    /\ loop_i <= Len(DiscoverLanguages)
    /\ \E new_feeds \in BoundedSeq(Candidates(DiscoverLang), MaxCandidates) :
       \E alive \in [DOMAIN new_feeds -> BOOLEAN] :
          /\ DiscoverWith(new_feeds, alive)
          /\ cand' = IF DiscoverSlots > 0
                     THEN [taken |-> Taken(new_feeds, DiscoverSlots),
                           alive |-> alive,
                           probed |-> DiscoverOutcome(new_feeds, alive).probed,
                           appended |-> DiscoverOutcome(new_feeds, alive).appended,
                           before |-> Len(roster)]
                     ELSE [NoCandidates EXCEPT !.before = Len(roster)]
    /\ UNCHANGED <<response, found, answer, discovered>>

OracleSpecInit == OracleInit /\ ScoutIdle /\ OracleIdle

OracleNext ==
    \/ OracleRepair
    \/ OracleAdd

OracleSpec == OracleSpecInit /\ [][OracleNext]_vars

\* discover_new_feeds alone: one call, for any language and any answer.
OracleParse ==
    /\ answer = NoAnswer
    /\ \E language \in {"en", "ja"} :
       \E text \in BoundedSeq(AnswerTokens, MaxAnswerLen) :
       \E doc \in Docs :
          /\ answer' = [language |-> language, text |-> text, doc |-> doc]
          /\ discovered' = DiscoverNewFeeds(language, text, doc)
    /\ UNCHANGED <<response, found, cand, maintVars, scoutVars>>

ParseSpecInit == MaintIdle /\ ScoutIdle /\ OracleIdle

ParseNext == OracleParse

ParseSpec == ParseSpecInit /\ [][ParseNext]_vars

\* ---------------------------------------------------------------- claims
CountSource(as, s) == Cardinality({i \in DOMAIN as : as[i].source = s})

IsPrefix(s, t) == Len(s) <= Len(t) /\ SubSeq(t, 1, Len(s)) = s

\* What collect() had left after deduplication and the history filter;
\* meaningful while its locals are still there (pc = "editor" or "announce").
Eligible == Unique(all_articles, {}, LoadSeenUrls(seen_file))

\* C1: the list collect returns has at most selection.max_articles articles
\* and at most selection.max_per_source (3 when the key is absent) of any
\* one source.
C1_Caps ==
    /\ Len(articles) <= config.max_articles
    /\ \A s \in SourceNames :
          CountSource(articles, s) <= Get(config, "max_per_source", DefaultMaxPerSource)

\* collect has just returned a full list, with more eligible articles than
\* it returned and a source that had more eligible articles than its cap.
C1_Witness ==
    /\ pc = "editor"
    /\ Len(articles) = config.max_articles
    /\ Len(Eligible) > Len(articles)
    /\ \E s \in SourceNames :
          /\ CountSource(articles, s) = Get(config, "max_per_source", DefaultMaxPerSource)
          /\ CountSource(Eligible, s) > CountSource(articles, s)

\* C2: the urls of the articles collect returns are pairwise distinct.
C2_DistinctUrls ==
    \A i, j \in DOMAIN articles : i # j => articles[i].url # articles[j].url

\* collect has just returned an article whose url two different sources
\* delivered, with room for a second article.
C2_Witness ==
    /\ pc = "editor"
    /\ config.max_articles > Len(articles)
    /\ \E i, j \in DOMAIN all_articles :
          /\ i # j
          /\ all_articles[i].url = all_articles[j].url
          /\ all_articles[i].source # all_articles[j].source
          /\ \E k \in DOMAIN articles : articles[k].url = all_articles[i].url

\* C3: no article collect returns has a url that is in the seen-history it
\* read, and none has a url that save_seen_urls recorded in an earlier run.
C3_NeverAgain ==
    \A i \in DOMAIN articles :
        /\ articles[i].url \notin LoadSeenUrls(seen_at_start)
        /\ articles[i].url \notin Range(seen_at_start)

\* C4: the history file changes only in the save step of run(), after the
\* script, the audio and the feed update have completed; a run that ended
\* in a failure has left the file as it was when the run started.
C4_CommitLast ==
    /\ [][seen_file' # seen_file =>
            pc = "save" /\ {"script", "audio", "feed"} \subseteq steps_done]_vars
    /\ [](pc \in {"failed", "exit1"} => seen_file = seen_at_start)

\* A run with selected articles that are not in the history failed after
\* the script was generated.
C4_Witness ==
    /\ pc = "failed"
    /\ "script" \in steps_done
    /\ \E i \in DOMAIN articles : articles[i].url \notin Range(seen_file)
    /\ seen_at_start # <<>>

C6_NoRepeatedLines ==
    \A i, j \in DOMAIN seen_file :
        (i # j /\ seen_file[i] # <<>>) => seen_file[i] # seen_file[j]

\* ------------------------------------------------ claims: maintenance
MaxFail == Get(mconfig, "max_fail_count", DefaultMaxFailCount)

\* run_health_checks has just probed a feed.
JustProbed == mpc = "probe" /\ probe_log.url # NoUrl

\* run_health_checks has just returned.
JustEvicted == (mpc = "repair" /\ loop_i = 1) \/ (mpc = "save" /\ ~grounding)

\* C7: right after a successful probe the record of the feed's url has
\* fail_count = 0 and last_success = the run's timestamp.
C7_SuccessResets ==
    (JustProbed /\ probe_log.alive) =>
        /\ health[probe_log.url].fail_count = 0
        /\ health[probe_log.url].last_success = now_iso

\* A probe succeeded for a url whose count was at or above max_fail_count.
C7_Witness ==
    /\ JustProbed
    /\ probe_log.alive
    /\ probe_log.before >= MaxFail
    /\ MaxFail >= 1

\* C8: right after a failed probe the fail_count of the feed's url is its
\* value before the probe plus 1 (1 without a record) and last_failure is
\* the run's timestamp; no fail_count is negative.
C8_FailureIncrements ==
    /\ (JustProbed /\ ~probe_log.alive) =>
          /\ health[probe_log.url].fail_count =
                (IF probe_log.before = -1 THEN 1 ELSE probe_log.before + 1)
          /\ health[probe_log.url].last_failure = now_iso
    /\ \A u \in DOMAIN health : health[u].fail_count >= 0

\* A probe failed for a url that already had failures on record.
C8_Witness ==
    /\ JustProbed
    /\ ~probe_log.alive
    /\ probe_log.before >= 1

\* The step is a successful probe of url u.
SuccessfulProbeOf(u) ==
    /\ mpc = "probe"
    /\ loop_i <= Len(roster)
    /\ loop_i' = loop_i + 1
    /\ obj[roster[loop_i]].url = u
    /\ failed_feeds' = failed_feeds

\* The step is a repair that gives a failed feed the url u.
RepairTo(u) ==
    /\ mpc = "repair"
    /\ loop_i <= Len(failed_feeds)
    /\ loop_i' = loop_i + 1
    /\ obj[failed_feeds[loop_i]].url # u
    /\ obj'[failed_feeds[loop_i]].url = u

\* A step of a running maintenance process (not the load of a new one).
RunStep == mpc \notin {"off", "done", "failed"}

C10_EvictedIffThreshold ==
    (JustEvicted /\ ~dry_run) =>
        \A k \in DOMAIN sources_file :
            (k \notin Range(roster)) <=>
                (health[sources_file[k].url].fail_count >= MaxFail)

\* A run has removed one of two feeds and kept the other.
C10_Witness ==
    /\ JustEvicted
    /\ ~dry_run
    /\ Len(sources_file) = 2
    /\ Len(roster) = 1

\* C11: three strikes.  A feed whose url has no failure on record when a run
\* that is not a dry run starts has at most one consecutive failed probe
\* after the run's checks, so with max_fail_count >= 2 it is still in the
\* roster run_health_checks returns.
C11_ThreeStrikes ==
    (JustEvicted /\ ~dry_run /\ MaxFail >= 2) =>
        \A k \in DOMAIN sources_file :
            sources_file[k].url \notin DOMAIN health_file => k \in Range(roster)

\* run_grounding_maintenance has finished its repair loop.
RepairOver == mpc = "discover" /\ loop_i = 1

\* C12, as claimed: when the repair loop is over, search_new_feed_url has been
\* called exactly once for every feed whose probe failed in this run, evicted
\* or not, and for no other feed.
C12_Original == RepairOver => queried = failed_feeds

\* The failed feeds the roster still holds, by identity.
FailedInRoster == SelectSeq(failed_feeds, LAMBDA f : f \in Range(roster))

\* The step is the turn of a failed feed in the repair loop.
RepairTurn == mpc = "repair" /\ loop_i <= Len(failed_feeds)

\* C12, amended: search_new_feed_url is called only for feeds whose probe
\* failed in this run, at most once each and in their order; exactly once for
\* every failed feed that is still in the roster; and a failed feed that was
\* evicted in this run is skipped unless the roster holds a descriptor equal
\* to it at its turn.
C12_Amended ==
    /\ [](RepairOver =>
            /\ queried = SelectSeq(failed_feeds, LAMBDA f : f \in Range(queried))
            /\ Range(FailedInRoster) \subseteq Range(queried))
    /\ [][RepairTurn =>
            LET f == failed_feeds[loop_i]
            IN  /\ queried' \in {queried, Append(queried, f)}
                /\ queried' # queried <=>
                      \E k \in DOMAIN roster : obj[roster[k]] = obj[f]]_vars

\* The repair loop of a run that is not a dry run is over: one failed feed
\* was evicted and not queried, another is still in the roster and was.
C12_Witness ==
    /\ RepairOver
    /\ ~dry_run
    /\ \E f, g \in Range(failed_feeds) :
          /\ f \notin Range(roster) /\ f \notin Range(queried)
          /\ g \in Range(roster) /\ g \in Range(queried)

\* The step is a repair that succeeded: the feed dict was changed.
RepairSucceeds == RepairTurn /\ obj' # obj

\* C13: a repair that succeeds changes no roster position and no other feed
\* dict; the repaired dict differs from the old one in its url alone; and the
\* health dict then has, under the new url, fail_count = 0 and last_success =
\* the time of the repair.
C13_RepairReplaces ==
    [][RepairSucceeds =>
        LET f == failed_feeds[loop_i]
            new_url == obj'[f].url
        IN  /\ roster' = roster
            /\ DOMAIN obj' = DOMAIN obj
            /\ \A k \in DOMAIN obj : k # f => obj'[k] = obj[k]
            /\ new_url # obj[f].url
            /\ obj'[f] = [obj[f] EXCEPT !.url = new_url]
            /\ new_url \in DOMAIN health'
            /\ health'[new_url].fail_count = 0
            /\ health'[new_url].last_success = clock
            /\ clock > now_iso]_vars

\* A roster feed that had a failure on record has just been given a new url.
C13_Witness ==
    /\ mpc = "repair"
    /\ loop_i > 1
    /\ LET f == failed_feeds[loop_i - 1]
       IN  /\ f \in Range(roster)
           /\ obj[f].url # sources_file[f].url
           /\ health[obj[f].url] = [fail_count |-> 0, last_success |-> clock,
                                    name |-> obj[f].name]

\* C14: after a repair that succeeds the health dict has no record under the
\* url the feed had before the repair.
C14_OldRecordDeleted ==
    [][RepairSucceeds => obj[failed_feeds[loop_i]].url \notin DOMAIN health']_vars

\* ------------------------------------------------- claims: the oracle
\* s[i..j] is an http(s) url literal of s: a scheme followed by the longest
\* run, at least one token long, that has no delimiter.
IsLiteralAt(s, i, j) ==
    /\ s[i] \in Schemes
    /\ j > i
    /\ \A k \in (i + 1)..j : s[k] \notin Delimiters
    /\ j = Len(s) \/ s[j + 1] \in Delimiters

HasLiteral(s) == \E i, j \in DOMAIN s : IsLiteralAt(s, i, j)

\* C15: search_new_feed_url returns no url when there is no answer, when the
\* answer has the sentinel, or when it has no http(s) url literal; otherwise
\* it returns the leftmost literal of the answer.  After a repair step in
\* which it returned no url the feed dicts and the health dict are as
\* run_health_checks left them.
C15_FirstUrlOrNone ==
    (mpc = "repair" /\ queried # <<>>) =>
        /\ IF response = <<>> \/ Sentinel \in Range(response) \/ ~HasLiteral(response)
           THEN found = NoUrl
           ELSE \E i, j \in DOMAIN response :
                   /\ IsLiteralAt(response, i, j)
                   /\ \A i2 \in 1..(i - 1) : \A j2 \in DOMAIN response :
                         ~IsLiteralAt(response, i2, j2)
                   /\ found = Join(SubSeq(response, i, j))
        /\ found = NoUrl =>
              /\ obj = sources_file
              /\ health = ProbeDead(health_file, sources_file[1], now_iso)

\* The answer "a https://a a" to a repair query of a run that is not a dry
\* run: the url between the blanks was returned and given to the feed.
C15_Witness ==
    /\ mpc = "repair"
    /\ response = <<"a", " ", "https://", "a", " ", "a">>
    /\ found = "https://a"
    /\ ~dry_run
    /\ queried = <<1>>
    /\ obj[1].url = "https://a"

\* ------------------------------------------------ claims: discovery
MaxPerLang == Get(mconfig, "max_feeds_per_language", DefaultMaxFeedsPerLanguage)

Languages == {"en", "ja", "zh"}

\* The feeds discovery has appended in this run, by identity.
Added == {f \in Range(roster) : f > Len(sources_file)}

\* The roster feeds of a language before discovery started.
CountBefore(lang) ==
    Cardinality({k \in DOMAIN roster :
                    roster[k] \notin Added /\ Get(obj[roster[k]], "language", "") = lang})

\* C16: discover_new_feeds is called for a language only while the roster
\* has fewer than max_feeds_per_language feeds of it, and during and after
\* discovery the roster has, of each language, at most the larger of
\* max_feeds_per_language and the number it had before discovery.
C16_LanguageCap ==
    /\ [](mpc \in {"discover", "save"} =>
            \A lang \in Languages :
                \/ CountLanguage(roster, obj, lang) <= MaxPerLang
                \/ CountLanguage(roster, obj, lang) <= CountBefore(lang))
    /\ [][(mpc = "discover" /\ asked' # asked) =>
            \E lang \in Languages :
                /\ asked' = Append(asked, lang)
                /\ CountLanguage(roster, obj, lang) < MaxPerLang]_vars

\* Discovery is over: one language was at its cap and was not asked for, the
\* other was, and a feed was added that filled it up to the cap.
C16_Witness ==
    /\ mpc = "save"
    /\ grounding
    /\ Len(asked) = 1
    /\ Added # {}
    /\ CountLanguage(roster, obj, asked[1]) = MaxPerLang
    /\ CountBefore(asked[1]) < MaxPerLang

\* The url of the k-th candidate was in the roster at the candidate's turn:
\* before the answer was processed, or through an earlier candidate of it.
PresentAtTurn(k) ==
    \/ \E q \in 1..cand.before : obj[roster[q]].url = cand.taken[k].url
    \/ \E k2 \in Range(cand.appended) : k2 < k /\ cand.taken[k2].url = cand.taken[k].url

\* C17: after the candidates of an answer were processed, the roster is the
\* one before with the appended candidates behind it; each appended
\* candidate was probed and found alive, and no earlier roster position has
\* its url; a candidate whose url was in the roster at its turn was neither
\* probed nor appended.
C17_AddedOnlyLiveAndNew ==
    (mpc = "discover" /\ loop_i > 1) =>
        /\ Len(roster) = cand.before + Len(cand.appended)
        /\ \A i \in DOMAIN cand.appended :
              LET k == cand.appended[i]
                  f == roster[cand.before + i]
              IN  /\ obj[f] = cand.taken[k]
                  /\ k \in Range(cand.probed)
                  /\ cand.alive[k]
                  /\ \A q \in 1..(cand.before + i - 1) : obj[roster[q]].url # obj[f].url
        /\ \A k \in DOMAIN cand.taken :
              PresentAtTurn(k) => k \notin Range(cand.probed) /\ k \notin Range(cand.appended)

\* Two candidates with one url: the first was probed, found alive and
\* appended, the second was skipped without a probe.
C17_Witness ==
    /\ mpc = "discover"
    /\ loop_i > 1
    /\ Len(cand.taken) = 2
    /\ cand.taken[1].url = cand.taken[2].url
    /\ cand.alive[2]
    /\ cand.probed = <<1>>
    /\ cand.appended = <<1>>
    /\ obj[roster[Len(roster)]] = cand.taken[1]

\* C18: unless auto_add is set and dry_run is not, the discovery loop appends
\* nothing: after an answer was processed the roster and the feed dicts are
\* the ones the loop started with, whatever candidates were found alive.
C18_AdditionsGated ==
    (mpc = "discover" /\ loop_i > 1 /\ ~(auto_add /\ ~dry_run)) =>
        /\ cand.appended = <<>>
        /\ roster = <<1>>
        /\ obj = sources_file

\* Without auto_add, and not in a dry run: a candidate with a new url was
\* probed and found alive, and the roster is as it was.
C18_Witness ==
    /\ mpc = "discover"
    /\ loop_i > 1
    /\ ~auto_add
    /\ ~dry_run
    /\ cand.probed # <<>>
    /\ cand.alive[cand.probed[1]]
    /\ Len(roster) = 1

\* The items of the answer that have a name and a url, if the answer is a
\* JSON list, bare or in fences.
ItemsWithNameAndUrl ==
    LET feeds == JsonLoads(Cleaned(Strip(answer.text)), answer.doc)
    IN  IF ~feeds.error /\ feeds.value.type = "list"
        THEN SelectSeq(feeds.value.items,
                       LAMBDA f : f.type = "object" /\ {"name", "url"} \subseteq DOMAIN f.fields)
        ELSE <<>>

\* C19: discover_new_feeds does not raise, whatever the answer, and returns
\* one feed for each item of the answer that has a name and a url, in the
\* order of the answer and with the item's name and url.
C19_NeverRaises ==
    answer # NoAnswer =>
        /\ ~discovered.raised
        /\ Len(discovered.feeds) = Len(ItemsWithNameAndUrl)
        /\ \A i \in DOMAIN discovered.feeds :
              /\ discovered.feeds[i].name = ItemsWithNameAndUrl[i].fields.name
              /\ discovered.feeds[i].url = ItemsWithNameAndUrl[i].fields.url

\* C20: from the start of a dry run on, the roster and the feed dicts are
\* those of the registry document as it was loaded, and no step of the run
\* changes the registry document or the health store document.
C20_DryRunWritesNothing ==
    /\ []((dry_run /\ mpc # "off") =>
            /\ obj = sources_file
            /\ roster = [i \in DOMAIN sources_file |-> i])
    /\ [][(dry_run /\ RunStep) =>
            /\ sources_file' = sources_file
            /\ health_file' = health_file]_vars

\* A dry run is over: a probe failed and its feed is due for eviction, the
\* oracle was asked for a new url of it and for new feeds, and the health
\* dict of the run is not the stored one.
C20_Witness ==
    /\ mpc = "done"
    /\ dry_run
    /\ auto_add
    /\ ToRemove(roster, obj, health, MaxFail) # <<>>
    /\ queried # <<>>
    /\ asked # <<>>
    /\ health # health_file

\* The run has no oracle: no key (or grounding switched off), or an oracle
\* whose every call errors or returns no text.
OracleUnavailable == ~grounding \/ ~oracle_up

\* C21: a run without an oracle does not end in an exception; no step of it
\* after run_health_checks changes the feed dicts, the roster or the health
\* dict, and what it saves are the roster and the health dict as they are.
C21_HealthCheckingOnly ==
    /\ [](OracleUnavailable => mpc # "failed")
    /\ [][(OracleUnavailable /\ mpc \in {"repair", "discover"}) =>
            UNCHANGED <<obj, roster, health>>]_vars
    /\ [][(OracleUnavailable /\ mpc = "save" /\ ~dry_run) =>
            /\ sources_file' = [k \in DOMAIN roster |-> obj[roster[k]]]
            /\ health_file' = health
            /\ \A k \in DOMAIN roster : obj[roster[k]] = sources_file[roster[k]]]_vars

\* A run with a key and an oracle that is down has saved: a feed had
\* failed and the oracle was called for it and for new feeds, with auto_add
\* set.
C21_Witness ==
    /\ mpc = "done"
    /\ grounding
    /\ ~oracle_up
    /\ ~dry_run
    /\ auto_add
    /\ queried # <<>>
    /\ asked # <<>>
    /\ sources_file = [k \in DOMAIN roster |-> obj[roster[k]]]
    /\ health_file = health

\* collect is fetching.
Fetching == pc \in {"newsapi", "rss"}

\* C22: a fetch that raises leaves the articles fetched so far as they are
\* and collect goes on with the next source; a fetch that returns adds its
\* articles behind them.  collect then returns the selection over all of
\* them: every fetched article with a url that is not in the history is
\* among the candidates of the selection.
C22_FailureDoesNotAbort ==
    /\ [][Fetching =>
            /\ IsPrefix(all_articles, all_articles')
            /\ fetch_errors' # fetch_errors =>
                  /\ all_articles' = all_articles
                  /\ pc' = "rss"
                  /\ feed_i' = feed_i + 1]_vars
    /\ [](pc \in {"announce", "editor"} =>
            /\ articles = Selected(all_articles, seen_file, config)
            /\ \A i \in DOMAIN all_articles :
                  (all_articles[i].url # <<>>
                      /\ all_articles[i].url \notin LoadSeenUrls(seen_file))
                  => \E j \in DOMAIN Eligible : Eligible[j].url = all_articles[i].url)

\* The first feed raised; collect returned an article NewsAPI delivered
\* before it and one the second feed delivered after it.
C22_Witness ==
    /\ pc = "editor"
    /\ fetch_errors = {RssFeeds[1].name}
    /\ \E i \in DOMAIN articles : articles[i].origin = "NewsAPI"
    /\ \E j \in DOMAIN articles : articles[j].source = RssFeeds[2].name

\* C23: every article a fetcher returns has published_at from the cutoff
\* (the time of the fetch less the lookback) to the time of the fetch.
C23_WithinWindow ==
    pc = "fetched" =>
        \A i \in DOMAIN all_articles :
            /\ all_articles[i].published_at >= Now - HoursLookback
            /\ all_articles[i].published_at <= Now

\* C24: when nothing is eligible (nothing was fetched, or every fetched url
\* is empty or in the history) collect returns the empty list and run()
\* turns to the announcement; the announcement writes nothing to the
\* history and, unless synthesis or the feed update raise, ends with exit
\* status 0 after both; a run that ended so has the history it started with.
C24_NothingEligibleIsNoError ==
    /\ [][(pc = "rss" /\ feed_i > Len(RssFeeds) /\ Eligible = <<>>) =>
            /\ articles' = <<>>
            /\ pc' = "announce"]_vars
    /\ [][pc = "announce" =>
            /\ seen_file' = seen_file
            /\ pc' \in {"exit0", "failed"}
            /\ pc' = "exit0" => steps_done' = {"audio", "feed"}]_vars
    /\ [](pc = "exit0" => seen_file = seen_at_start /\ articles = <<>>)

\* collect has returned nothing: a fetch had raised, and every article the
\* others delivered has a url of the history.
C24_Witness ==
    /\ pc = "announce"
    /\ articles = <<>>
    /\ fetch_errors # {}
    /\ all_articles # <<>>
    /\ \A i \in DOMAIN all_articles : all_articles[i].url \in LoadSeenUrls(seen_file)

\* Where in the fetch order the url of a returned article first came.
FetchIndex(a) ==
    CHOOSE k \in DOMAIN all_articles :
        /\ all_articles[k].url = a.url
        /\ \A q \in 1..(k - 1) : all_articles[q].url # a.url

\* C25: what collect returns is the value of one function of the fetched
\* sequence, the history file and the config; it is in descending order of
\* (score, published_at), and articles of one key are in the order in which
\* they were fetched.
C25_Deterministic ==
    pc \in {"announce", "editor"} =>
        /\ articles = Selected(all_articles, seen_file, config)
        /\ \A i, j \in DOMAIN articles :
              i < j =>
                 /\ KeyGE(articles[i], articles[j])
                 /\ KeyGE(articles[j], articles[i]) =>
                       FetchIndex(articles[i]) < FetchIndex(articles[j])

\* Two returned articles tie on score and date: the one NewsAPI delivered
\* is before the one a feed delivered.
C25_Witness ==
    /\ pc = "editor"
    /\ Len(articles) = 2
    /\ articles[1].score = articles[2].score
    /\ articles[1].published_at = articles[2].published_at
    /\ articles[1].origin = "NewsAPI"
    /\ articles[2].origin = "RSS"

\* The score an article has when its fetcher returns it: 0 from NewsAPI,
\* the weight of its feed (1 without one) from RSS.
BaseScore(a) ==
    IF a.origin = "NewsAPI" THEN 0
    ELSE LET feed_cfg == CHOOSE f \in Range(RssFeeds) : f.name = a.source
         IN  Get(feed_cfg, "weight", 1)

\* The entries of the keyword list found, in any case, in the title, a
\* blank and the summary.
Matched(a) ==
    {k \in DOMAIN Keywords :
        Contains(Lower(Keywords[k]), Lower(a.title \o <<" ">> \o a.summary))}

\* C26: the score of a returned article is its base score plus one point
\* for each keyword found in its text, and nothing more.
C26_ScoreIsBasePlusKeywords ==
    pc \in {"announce", "editor"} =>
        \A i \in DOMAIN articles :
            articles[i].score = BaseScore(articles[i]) + Cardinality(Matched(articles[i]))

\* An article of the feed with weight 2 whose text has one keyword twice,
\* in two cases, is returned with score 3.
C26_Witness ==
    /\ pc = "editor"
    /\ \E i \in DOMAIN articles :
          /\ articles[i].source = RssFeeds[2].name
          /\ articles[i].origin = "RSS"
          /\ articles[i].title = <<"A", "I">>
          /\ articles[i].summary = <<"a", "i">>
          /\ articles[i].score = 3

\* C27: after the process was killed while saving, the registry document
\* is the one the run loaded or the one the run was writing, whole, and so
\* is the health document.
C27_AtomicSaves ==
    mpc = "killed" =>
        /\ sources_file \in {obj, NewSources}
        /\ health_file \in {HealthBefore, health}

\* The fail_count the run loaded for a url, 0 without a record.
LoadedCount(u) ==
    IF u \in DOMAIN health_file THEN Get(health_file[u], "fail_count", 0) ELSE 0

\* C28: during run_health_checks and when it returns, the fail_count of a
\* url is at most one above the count the run loaded for it.
C28_AtMostOnePerRun ==
    (mpc = "probe" \/ JustEvicted) =>
        \A u \in DOMAIN health : health[u].fail_count <= LoadedCount(u) + 1

\* The feeds run_health_checks removed in this run: loaded, and not in the
\* roster.
Evicted == (DOMAIN sources_file) \ Range(roster)

\* C29: when main comes to save, the health dict it writes has, for every
\* feed evicted in this run, the record of its url, with the count that
\* evicted it.
C29_EvictedRecordKept ==
    (mpc = "save" /\ ~dry_run) =>
        \A f \in Evicted :
            /\ sources_file[f].url \in DOMAIN health
            /\ Get(health[sources_file[f].url], "fail_count", 0) >= MaxFail

\* A descriptor of the roster r has the url u.
UrlInRoster(u, r, o) == \E k \in DOMAIN r : o[r[k]].url = u

\* The url u is evicted: its record has reached max_fail_count and no
\* descriptor of the roster has it.
EvictedUrl(u) ==
    /\ u \in DOMAIN health
    /\ Get(health[u], "fail_count", 0) >= MaxFail
    /\ ~UrlInRoster(u, roster, obj)

\* C30: a step of a run puts an evicted url into the roster only if it is
\* a step of the discovery loop, with auto_add and not in a dry run, that
\* appends a descriptor.
C30_EvictedIsTerminal ==
    [][RunStep =>
        \A u \in FeedUrls :
            (EvictedUrl(u) /\ UrlInRoster(u, roster', obj')) =>
                /\ mpc = "discover"
                /\ auto_add /\ ~dry_run
                /\ Len(roster') > Len(roster)]_vars

\* C31: the list collect returns is in descending order of (score,
\* published_at): of two consecutive articles the first has the higher
\* score, or the same score and a date that is not earlier.
C31_ReturnedInKeyOrder ==
    \A i \in 1..(Len(articles) - 1) :
        \/ articles[i].score > articles[i + 1].score
        \/ /\ articles[i].score = articles[i + 1].score
           /\ articles[i].published_at >= articles[i + 1].published_at

\* Two returned articles have one score and different dates, and the later
\* one, fetched second, is returned first.
C31_Witness ==
    /\ pc = "editor"
    /\ Len(articles) = 2
    /\ articles[1].score = articles[2].score
    /\ articles[1].published_at > articles[2].published_at
    /\ FetchIndex(articles[1]) > FetchIndex(articles[2])

\* The first copy, in fetch order, of the url of article a, as the
\* deduplication loop scores it.
FirstCopy(a) ==
    LET first == all_articles[FetchIndex(a)]
    IN  [first EXCEPT !.score = @ + Score(first)]

\* C32: deduplication keeps the first occurrence: every eligible article
\* and every returned article is the first fetched copy of its url, with
\* that copy's source, base weight, title and summary and its keyword score
\* added once; no later copy is eligible or returned.
C32_FirstOccurrenceKept ==
    pc \in {"announce", "editor"} =>
        /\ \A i \in DOMAIN Eligible : Eligible[i] = FirstCopy(Eligible[i])
        /\ \A i, j \in DOMAIN Eligible : i # j => Eligible[i].url # Eligible[j].url
        /\ \A i \in DOMAIN articles : articles[i] = FirstCopy(articles[i])

\* A url was fetched twice, with another source, title, summary and base
\* weight the second time, and the article returned for it is the first
\* copy.
C32_Witness ==
    /\ pc = "editor"
    /\ \E i \in DOMAIN articles :
          \E k \in DOMAIN all_articles :
              /\ k > FetchIndex(articles[i])
              /\ all_articles[k].url = articles[i].url
              /\ all_articles[k].source # articles[i].source
              /\ all_articles[k].title # articles[i].title
              /\ all_articles[k].summary # articles[i].summary
              /\ all_articles[k].score # all_articles[FetchIndex(articles[i])].score
              /\ articles[i].source = all_articles[FetchIndex(articles[i])].source

\* The eligible articles in the order in which the walk visits them.
Walked == SortDesc(Eligible)

Returned(a) == \E i \in DOMAIN articles : articles[i] = a

\* The articles the walk had accepted before position k, all of them or
\* those of source s.
AcceptedBefore(k) == {q \in 1..(k - 1) : Returned(Walked[q])}

AcceptedOfSourceBefore(k, s) == {q \in AcceptedBefore(k) : Walked[q].source = s}

MaxPerSource == Get(config, "max_per_source", DefaultMaxPerSource)

\* C33: selection is the greedy walk with backfill: an eligible article is
\* left out of the result only if, at its turn in sorted order,
\* max_articles articles were already accepted or its source already had
\* max_per_source accepted; when the result is not full, the source of
\* every omitted eligible article has exactly max_per_source articles in
\* it.
C33_GreedyBackfill ==
    pc \in {"announce", "editor"} =>
        /\ \A k \in DOMAIN Walked :
              ~Returned(Walked[k]) =>
                  \/ Cardinality(AcceptedBefore(k)) >= config.max_articles
                  \/ Cardinality(AcceptedOfSourceBefore(k, Walked[k].source))
                        >= MaxPerSource
        /\ Len(articles) < config.max_articles =>
              \A k \in DOMAIN Walked :
                  ~Returned(Walked[k]) =>
                      CountSource(articles, Walked[k].source) = MaxPerSource

\* The second-best eligible article was passed over because its source
\* was at its cap, and the third, of another source, fills the result.
C33_Witness ==
    /\ pc = "editor"
    /\ Len(Walked) = 3
    /\ Len(articles) = config.max_articles
    /\ Walked[1].source = Walked[2].source
    /\ Walked[3].source # Walked[1].source
    /\ articles = <<Walked[1], Walked[3]>>

\* The urls of a list of descriptors are pairwise distinct.
DistinctUrls(feeds) ==
    \A i, j \in DOMAIN feeds : i # j => feeds[i].url # feeds[j].url

\* The roster the run holds in memory, as descriptors.
RosterNow == [k \in DOMAIN roster |-> obj[roster[k]]]

\* C34: if the urls of the roster are pairwise distinct when a maintenance
\* run starts (the registry document it loaded), they are pairwise distinct
\* when its health checks, repair and discovery are over.
C34_UrlsStayDistinct ==
    (mpc = "save" /\ DistinctUrls(sources_file)) => DistinctUrls(RosterNow)

\* The names the oracle gives the feeds it proposes; no feed of the first
\* registry has one, so a loaded descriptor with such a name was appended
\* by the discovery loop of an earlier run.
DiscoveredNames == {c.name : c \in UNION {Candidates(l) : l \in Range(DefaultLanguages)}}

\* The number of runs that ended before this one: run n reads the clock at
\* 2n - 1.  A descriptor appended by discovery is probed once in each run
\* that loads it, hence at most this often by the end of this run's checks.
RunsBefore == (now_iso - 1) \div 2

\* C35: a descriptor added by discovery starts with no failures: when a
\* health check evicts it, it has failed max_fail_count probes in a row
\* since it was added, so it has been probed max_fail_count times at least,
\* whatever record its url had when it was added.
C35_AddedStartsHealthy ==
    JustEvicted =>
        \A f \in Evicted :
            sources_file[f].name \in DiscoveredNames => MaxFail <= RunsBefore

\* C36: when run_health_checks returns, every descriptor it loaded whose
\* own probe succeeded in this run is still in the roster.
C36_HealthyNotRemoved ==
    JustEvicted =>
        \A f \in DOMAIN sources_file :
            f \notin Range(failed_feeds) => f \in Range(roster)

====
